---------------------------- MODULE Spec2Model ----------------------------
(***************************************************************************)
(* A model of the constant-string column of arrow2 and of the code around  *)
(* it: ConstUtf8Array, GrowableConstUtf8, the parquet utf8 page writer     *)
(* (encode_plain, build_statistics, truncate_down, truncate_up), the       *)
(* parquet schema metadata reader and the flight deserializers.            *)
(*                                                                         *)
(* A Rust String / &str is modelled as the sequence of its UTF-8 bytes     *)
(* (naturals 0..255); a char as its code point.                            *)
(***************************************************************************)
EXTENDS Integers, Sequences, FiniteSets, TLC

VARIABLES
    \* GrowableConstUtf8 (src/array/growable/const_utf8.rs)
    arrays,      \* Vec<&ConstUtf8Array>
    validity,    \* MutableBitmap, a sequence of booleans
    values,      \* Vec<u8>
    offsets,     \* Vec<i32>
    length,      \* i32
    appended,    \* history: for every entry appended, TRUE iff extend added it
    out,         \* the Utf8Array produced by to(), or None
    \* truncate_down / truncate_up
    s,           \* the argument
    down,        \* the result of truncate_down(s), or None
    up,          \* the result of truncate_up(s), or None
    \* encode_plain / build_statistics
    array,       \* the Utf8Array argument
    is_optional, \* the bool argument of encode_plain
    buffer,      \* the Vec<u8> argument of encode_plain
    buffer0,     \* history: buffer at the call of encode_plain
    encoded,     \* whether encode_plain has returned
    statistics,  \* the result of build_statistics, or None
    \* read_schema_from_metadata
    metadata,    \* Metadata: the value stored under ARROW_SCHEMA_META_KEY, or None
    schema,      \* the result of read_schema_from_metadata, or None
    \* flight
    data,        \* the FlightData argument
    dictionaries,\* read::Dictionaries, the set of the ids of the dictionaries held
    dictionaries0, \* history: dictionaries at the call
    flight,      \* the result of the deserializer called, or None
    \* ConstUtf8Array
    self,        \* the ConstUtf8Array
    sliced       \* the result of slice, or None

growVars == <<arrays, validity, values, offsets, length, appended, out>>
truncVars == <<s, down, up>>
pageVars == <<array, is_optional, buffer, buffer0, encoded, statistics>>
metaVars == <<metadata, schema>>
flightVars == <<data, dictionaries, dictionaries0, flight>>
sliceVars == <<self, sliced>>
vars == <<growVars, truncVars, pageVars, metaVars, flightVars, sliceVars>>

None == [tag |-> "None"]

Min(a, b) == IF a <= b THEN a ELSE b

(***************************************************************************)
(* UTF-8, as core::str implements it.                                      *)
(***************************************************************************)

\* char::encode_utf8
EncodeUtf8(c) ==
    IF c < 128 THEN <<c>>
    ELSE IF c < 2048 THEN <<192 + (c \div 64), 128 + (c % 64)>>
    ELSE IF c < 65536 THEN
        <<224 + (c \div 4096), 128 + ((c \div 64) % 64), 128 + (c % 64)>>
    ELSE <<240 + (c \div 262144), 128 + ((c \div 4096) % 64),
           128 + ((c \div 64) % 64), 128 + (c % 64)>>

\* a UTF-8 continuation byte, 0b10xxxxxx
IsContinuation(b) == b \div 64 = 2

\* str::is_char_boundary
is_char_boundary(str, index) ==
    \/ index = 0
    \/ index = Len(str)
    \/ index < Len(str) /\ ~IsContinuation(str[index + 1])

\* the number of bytes the lead byte b announces; 0 when b is no lead byte
Utf8Width(b) ==
    IF b < 128 THEN 1
    ELSE IF b >= 194 /\ b <= 223 THEN 2
    ELSE IF b >= 224 /\ b <= 239 THEN 3
    ELSE IF b >= 240 /\ b <= 244 THEN 4
    ELSE 0

\* the code point of the UTF-8 sequence str[i+1 .. i+w] (i is 0-based)
DecodeAt(str, i, w) ==
    IF w = 1 THEN str[i + 1]
    ELSE IF w = 2 THEN (str[i + 1] - 192) * 64 + (str[i + 2] - 128)
    ELSE IF w = 3 THEN
        (str[i + 1] - 224) * 4096 + (str[i + 2] - 128) * 64 + (str[i + 3] - 128)
    ELSE (str[i + 1] - 240) * 262144 + (str[i + 2] - 128) * 4096
         + (str[i + 3] - 128) * 64 + (str[i + 4] - 128)

\* a Unicode scalar value: what a Rust char can hold
IsScalar(c) == c >= 0 /\ c <= 1114111 /\ ~(c >= 55296 /\ c <= 57343)

\* the byte at 0-based index i starts a well-formed sequence: as many
\* continuation bytes as its lead byte announces and no more, shortest form,
\* a scalar value
WellFormedAt(str, i) ==
    LET w == Utf8Width(str[i + 1]) IN
    /\ w > 0
    /\ i + w <= Len(str)
    /\ \A k \in 2..w : IsContinuation(str[i + k])
    /\ i + w < Len(str) => ~IsContinuation(str[i + w + 1])
    /\ LET c == DecodeAt(str, i, w) IN
           IsScalar(c) /\ EncodeUtf8(c) = SubSeq(str, i + 1, i + w)

\* core::str::from_utf8(str).is_ok()
IsValidUtf8(str) ==
    /\ Len(str) > 0 => ~IsContinuation(str[1])
    /\ \A i \in 0..(Len(str) - 1) : IsContinuation(str[i + 1]) \/ WellFormedAt(str, i)

\* the 0-based index at which the last char of the non-empty string str starts
RECURSIVE LastCharStart(_, _)
LastCharStart(str, i) ==
    IF i = 0 \/ ~IsContinuation(str[i + 1]) THEN i ELSE LastCharStart(str, i - 1)

\* String::pop: [ch, rest], or None on the empty string
StringPop(str) ==
    IF Len(str) = 0 THEN None
    ELSE LET i == LastCharStart(str, Len(str) - 1) IN
         [tag |-> "Some", ch |-> DecodeAt(str, i, Len(str) - i),
          rest |-> SubSeq(str, 1, i)]

\* String::push
StringPush(str, c) == str \o EncodeUtf8(c)

\* <[u8] as Ord>::cmp, the unsigned lexicographic order: -1, 0 or 1
BytesCmp(a, b) ==
    LET n == Min(Len(a), Len(b)) IN
    IF \A i \in 1..n : a[i] = b[i]
    THEN (IF Len(a) < Len(b) THEN -1 ELSE IF Len(a) > Len(b) THEN 1 ELSE 0)
    ELSE LET d == CHOOSE i \in 1..n : a[i] # b[i] /\ \A j \in 1..(i - 1) : a[j] = b[j]
         IN  IF a[d] < b[d] THEN -1 ELSE 1

\* the UTF-8 bytes of the string whose chars are the code points cs
RECURSIVE StrOf(_)
StrOf(cs) == IF cs = <<>> THEN <<>> ELSE EncodeUtf8(Head(cs)) \o StrOf(Tail(cs))

(***************************************************************************)
(* Bounds of the model.                                                    *)
(***************************************************************************)

\* the most entries a GrowableConstUtf8 is given
MaxEntries == 4
\* the largest len of an extend and additional of an extend_validity
MaxLen == 2

\* i32::MAX, the largest offset a Vec<i32> holds
I32_MAX == 2147483647

(***************************************************************************)
(* GrowableConstUtf8                                                       *)
(***************************************************************************)

\* a panic: the operation is aborted
Panic == [tag |-> "panic"]

\* a value returned
Ok(v) == [tag |-> "Ok", val |-> v]

\* ConstUtf8Array::new
new(value, len) == [value |-> value, len |-> len]

\* the source columns the accumulator is bound to: "ab", "" and "\u{e9}z"
SourceArrays == <<new(StrOf(<<97, 98>>), 3), new(<<>>, 2), new(StrOf(<<233, 122>>), 1)>>

\* Utf8Array::try_new_unchecked followed by unwrap: the validity, when present,
\* must have one bit per entry
try_new_unchecked(offs, vals, valid) ==
    IF valid # None /\ Len(valid.bits) # Len(offs) - 1 THEN Panic
    ELSE [tag |-> "Utf8Array", offsets |-> offs, values |-> vals, validity |-> valid]

\* From<MutableBitmap> for Option<Bitmap>: None when no bit is unset
BitmapIntoOption(bits) ==
    IF \E i \in 1..Len(bits) : ~bits[i] THEN [tag |-> "Some", bits |-> bits] ELSE None

\* GrowableConstUtf8::new
InitGrow ==
    /\ arrays = SourceArrays
    /\ validity = <<>>
    /\ values = <<>>
    /\ offsets = <<0>>
    /\ length = 0
    /\ appended = <<>>
    /\ out = None

\* the loop of extend: len times, append value and push the values' length
RECURSIVE ExtendLoop(_, _, _)
ExtendLoop(st, value, len) ==
    IF len = 0 THEN st
    ELSE LET vals == st.values \o value IN
         ExtendLoop([values |-> vals, offsets |-> Append(st.offsets, Len(vals))],
                    value, len - 1)

\* extend_validity with the offsets filled by 0, not by self.length
extend_validity_zero(additional) ==
    /\ Len(appended) + additional <= MaxEntries
    /\ offsets' = offsets \o [i \in 1..additional |-> 0]
    /\ validity' = validity \o [i \in 1..additional |-> FALSE]
    /\ appended' = appended \o [i \in 1..additional |-> FALSE]
    /\ UNCHANGED <<arrays, values, length, out>>

\* Growable::extend; `*self.offsets.last().unwrap()` panics when offsets is
\* still empty after the loop
extend(index, start, len) ==
    /\ Len(appended) + len <= MaxEntries
    /\ index + 1 \in DOMAIN arrays
    /\ LET value == arrays[index + 1].value
           st == ExtendLoop([values |-> values, offsets |-> offsets], value, len)
       IN  /\ Len(st.values) <= I32_MAX
           /\ values' = st.values
           /\ offsets' = st.offsets
           /\ IF st.offsets = <<>>
              THEN length' = length /\ out' = Panic
              ELSE length' = st.offsets[Len(st.offsets)] /\ out' = out
    /\ appended' = appended \o [i \in 1..len |-> TRUE]
    /\ UNCHANGED <<arrays, validity>>

\* Growable::extend_validity
extend_validity(additional) ==
    /\ Len(appended) + additional <= MaxEntries
    /\ offsets' = offsets \o [i \in 1..additional |-> length]
    /\ validity' = validity \o [i \in 1..additional |-> FALSE]
    /\ appended' = appended \o [i \in 1..additional |-> FALSE]
    /\ UNCHANGED <<arrays, values, length, out>>

\* GrowableConstUtf8::to: the three buffers are taken and a Utf8Array is built
to ==
    /\ out' = try_new_unchecked(offsets, values, BitmapIntoOption(validity))
    /\ validity' = <<>>
    /\ offsets' = <<>>
    /\ values' = <<>>
    /\ UNCHANGED <<arrays, length, appended>>

\* From<GrowableConstUtf8> for Utf8Array<i32>: the accumulator is consumed
From ==
    /\ out = None
    /\ to

\* the calls made on an accumulator that From has not consumed
Extend ==
    /\ out = None
    /\ \E index \in 0..2, start \in 0..1, len \in 0..MaxLen : extend(index, start, len)

ExtendValidity ==
    /\ out = None
    /\ \E additional \in 0..MaxLen : extend_validity(additional)

\* Growable::as_box: to() through &mut self, the accumulator stays in use
as_box == to

\* Growable::as_arc
as_arc == to

\* the calls made on an accumulator that as_box and as_arc leave in use, until
\* one of them panics
ExtendAgain ==
    /\ out # Panic
    /\ \E index \in 0..2, start \in 0..1, len \in 0..MaxLen : extend(index, start, len)

ExtendValidityAgain ==
    /\ out # Panic
    /\ \E additional \in 0..MaxLen : extend_validity(additional)

AsBox == out # Panic /\ as_box

AsArc == out # Panic /\ as_arc

IdleGrow ==
    /\ arrays = <<>> /\ validity = <<>> /\ values = <<>> /\ offsets = <<>>
    /\ length = 0 /\ appended = <<>> /\ out = None
IdleTrunc == s = <<>> /\ down = None /\ up = None
IdlePage ==
    /\ array = None /\ is_optional = FALSE /\ buffer = <<>> /\ buffer0 = <<>>
    /\ encoded = FALSE /\ statistics = None
IdleMeta == metadata = None /\ schema = None
IdleFlight == data = None /\ dictionaries = {} /\ dictionaries0 = {} /\ flight = None
IdleSlice == self = None /\ sliced = None

Init == InitGrow /\ IdleTrunc /\ IdlePage /\ IdleMeta /\ IdleFlight /\ IdleSlice

Next ==
    \/ Extend /\ UNCHANGED <<truncVars, pageVars, metaVars, flightVars, sliceVars>>
    \/ ExtendValidity /\ UNCHANGED <<truncVars, pageVars, metaVars, flightVars, sliceVars>>
    \/ From /\ UNCHANGED <<truncVars, pageVars, metaVars, flightVars, sliceVars>>

Spec == Init /\ [][Next]_vars

NextReuse ==
    \/ ExtendAgain /\ UNCHANGED <<truncVars, pageVars, metaVars, flightVars, sliceVars>>
    \/ ExtendValidityAgain
           /\ UNCHANGED <<truncVars, pageVars, metaVars, flightVars, sliceVars>>
    \/ AsBox /\ UNCHANGED <<truncVars, pageVars, metaVars, flightVars, sliceVars>>
    \/ AsArc /\ UNCHANGED <<truncVars, pageVars, metaVars, flightVars, sliceVars>>

SpecReuse == Init /\ [][NextReuse]_vars

\* C11: in every reachable state of the accumulator, as_box and as_arc
\* included, offsets has a last element and length equals it.
LengthIsLastOffset ==
    out # Panic => (Len(offsets) > 0 /\ length = offsets[Len(offsets)])

\* C1: while the accumulator is fed by extend and extend_validity, offsets has one
\* element more than the entries appended, starts at 0, never decreases, and
\* ends at the byte length of values.
GrowableOffsetsInvariant ==
    out = None =>
        /\ Len(offsets) = Len(appended) + 1
        /\ offsets[1] = 0
        /\ \A i \in 1..(Len(offsets) - 1) : offsets[i] <= offsets[i + 1]
        /\ offsets[Len(offsets)] = Len(values)

\* an accumulator that was given values and then nulls
GrowableOffsetsWitness ==
    /\ out = None
    /\ Len(appended) >= 3
    /\ appended[1] /\ ~appended[Len(appended)]
    /\ Len(values) > 0

\* C2: the validity bitmap has one bit per appended entry, unset exactly for
\* the entries extend_validity added, and a finalized column's bitmap, when
\* present, has one bit per entry.
ValidityOneBitPerEntry ==
    /\ out = None => validity = appended
    /\ out # None =>
        /\ out.tag = "Utf8Array"
        /\ out.validity # None => Len(out.validity.bits) = Len(out.offsets) - 1


(***************************************************************************)
(* truncate_down and truncate_up                                           *)
(***************************************************************************)

MAX_STAT_LENGTH == 256

\* the most chars that follow the run of 'x' in an argument
MaxTail == 2
\* how far below MAX_STAT_LENGTH the shortest long run of 'x' ends
Slack == 4

\* the chars of the arguments: the ends of the 1-, 2-, 3- and 4-byte ranges,
\* the two sides of the surrogate gap, and 'a'
Alphabet == {97, 127, 128, 2047, 2048, 55295, 57344, 65535, 65536, 1114111}

RECURSIVE SeqsUpTo(_, _)
SeqsUpTo(S, n) ==
    IF n = 0 THEN {<<>>}
    ELSE LET shorter == SeqsUpTo(S, n - 1) IN
         shorter \cup {Append(q, c) : q \in shorter, c \in S}

\* the arguments: a run of 'x', empty or about MAX_STAT_LENGTH long, then a tail
TruncInputs ==
    {[i \in 1..k |-> 120] \o StrOf(tail) :
        k \in {0} \cup ((MAX_STAT_LENGTH - Slack)..(MAX_STAT_LENGTH + 1)),
        tail \in SeqsUpTo(Alphabet, MaxTail)}

\* `for index in (0..=MAX_STAT_LENGTH).rev()`, entered at index: the first index
\* that is a char boundary, -1 when the loop ends without one
RECURSIVE BoundaryFrom(_, _)
BoundaryFrom(str, index) ==
    IF index < 0 THEN -1
    ELSE IF is_char_boundary(str, index) THEN index
    ELSE BoundaryFrom(str, index - 1)

\* truncate_down that cuts at MAX_STAT_LENGTH, whatever byte is there
truncate_down_at_cap(str) ==
    IF Len(str) <= MAX_STAT_LENGTH THEN Ok(str)
    ELSE Ok(SubSeq(str, 1, MAX_STAT_LENGTH))

truncate_down(str) ==
    IF Len(str) <= MAX_STAT_LENGTH THEN Ok(str)
    ELSE LET index == BoundaryFrom(str, MAX_STAT_LENGTH) IN
         IF index < 0 THEN Panic  \* unreachable!()
         ELSE Ok(SubSeq(str, 1, index))

\* the match of truncate_up on the char popped
IncrementChar(ch) ==
    IF (ch >= 0 /\ ch <= 55294) \/ (ch >= 57344 /\ ch <= 1114110) THEN ch + 1
    ELSE IF ch = 55295 THEN 57344
    ELSE 1114111

truncate_up(str) ==
    IF Len(str) <= MAX_STAT_LENGTH THEN Ok(str)
    ELSE LET index == BoundaryFrom(str, MAX_STAT_LENGTH) IN
         IF index < 0 THEN Panic  \* unreachable!()
         ELSE LET popped == StringPop(SubSeq(str, 1, index)) IN
              IF popped = None THEN Panic  \* unwrap() of None
              ELSE Ok(StringPush(popped.rest, IncrementChar(popped.ch)))

InitTrunc == s \in TruncInputs /\ down = None /\ up = None

TruncateDown ==
    /\ down = None
    /\ down' = truncate_down(s)
    /\ UNCHANGED <<s, up>>

TruncateUp ==
    /\ up = None
    /\ up' = truncate_up(s)
    /\ UNCHANGED <<s, down>>

InitTruncate ==
    IdleGrow /\ InitTrunc /\ IdlePage /\ IdleMeta /\ IdleFlight /\ IdleSlice

NextTruncate ==
    \/ TruncateDown /\ UNCHANGED <<growVars, pageVars, metaVars, flightVars, sliceVars>>
    \/ TruncateUp /\ UNCHANGED <<growVars, pageVars, metaVars, flightVars, sliceVars>>

SpecTruncate == InitTruncate /\ [][NextTruncate]_vars

\* the last char of the string truncate_up keeps before it increments
LastKeptChar(str) ==
    StringPop(SubSeq(str, 1, BoundaryFrom(str, MAX_STAT_LENGTH))).ch

\* C3: truncate_up of a string longer than the cap is valid UTF-8 and strictly
\* greater than the string in byte-wise order, and a last kept char U+D7FF
\* becomes U+E000.
TruncateUpGreater ==
    (up # None /\ Len(s) > MAX_STAT_LENGTH) =>
        /\ up.tag = "Ok"
        /\ IsValidUtf8(up.val)
        /\ BytesCmp(up.val, s) = 1
        /\ LastKeptChar(s) = 55295 => StringPop(up.val).ch = 57344

\* C4: truncate_down returns a short string unchanged, and of a long one the
\* prefix ending at the largest char boundary within the cap: at most 256 bytes,
\* valid UTF-8, not greater than the string; the search never fails.
TruncateDownPrefix ==
    down # None =>
        /\ down.tag = "Ok"
        /\ Len(s) <= MAX_STAT_LENGTH => down.val = s
        /\ Len(s) > MAX_STAT_LENGTH =>
            \E index \in 0..MAX_STAT_LENGTH :
                /\ is_char_boundary(s, index)
                /\ \A j \in (index + 1)..MAX_STAT_LENGTH : ~is_char_boundary(s, j)
                /\ down.val = SubSeq(s, 1, index)
        /\ Len(down.val) <= MAX_STAT_LENGTH
        /\ IsValidUtf8(down.val)
        /\ BytesCmp(down.val, s) <= 0

\* a long string with a 4-byte char across byte 256, cut three bytes below the cap
TruncateDownWitness ==
    /\ down.tag = "Ok"
    /\ Len(s) > MAX_STAT_LENGTH
    /\ Len(down.val) = MAX_STAT_LENGTH - 3
    /\ s[Len(down.val) + 1] >= 240

\* C10: the result of truncate_up has at most MAX_STAT_LENGTH bytes.
TruncateUpWithinCap ==
    up.tag = "Ok" => Len(up.val) <= MAX_STAT_LENGTH


(***************************************************************************)
(* Utf8Array, as encode_plain and build_statistics read it                 *)
(***************************************************************************)

Some(v) == [tag |-> "Some", val |-> v]

\* Utf8Array::len
ArrayLen(arr) == Len(arr.offsets) - 1

\* Utf8Array::value(i), i 0-based: the bytes between two offsets
ArrayValue(arr, i) == SubSeq(arr.values, arr.offsets[i + 1] + 1, arr.offsets[i + 2])

\* whether entry i (0-based) is null: its validity bit is unset
IsNull(arr, i) == arr.validity # None /\ ~arr.validity.bits[i + 1]

\* Utf8Array::values_iter: every entry's value, null or not
values_iter(arr) == [k \in 1..ArrayLen(arr) |-> ArrayValue(arr, k - 1)]

\* Utf8Array::iter: Some(value) for a valid entry, None for a null one
iter(arr) ==
    [k \in 1..ArrayLen(arr) |->
        IF IsNull(arr, k - 1) THEN None ELSE Some(ArrayValue(arr, k - 1))]

\* Iterator::flatten over Option items: the values of the Some items, in order
RECURSIVE Flatten(_)
Flatten(items) ==
    IF items = <<>> THEN <<>>
    ELSE IF Head(items) = None THEN Flatten(Tail(items))
    ELSE <<Head(items).val>> \o Flatten(Tail(items))

\* Utf8Array::null_count
null_count(arr) == Cardinality({i \in 0..(ArrayLen(arr) - 1) : IsNull(arr, i)})

\* the column of the strings strs with the validity valid (None or Some bits):
\* a null entry keeps its span of values
RECURSIVE OffsetsOf(_, _)
OffsetsOf(strs, from) ==
    IF strs = <<>> THEN <<from>>
    ELSE <<from>> \o OffsetsOf(Tail(strs), from + Len(Head(strs)))

RECURSIVE Concat(_)
Concat(strs) == IF strs = <<>> THEN <<>> ELSE Head(strs) \o Concat(Tail(strs))

Utf8ArrayOf(strs, valid) ==
    [tag |-> "Utf8Array", offsets |-> OffsetsOf(strs, 0), values |-> Concat(strs),
     validity |-> valid]

\* the validity bitmaps of a column of n entries: none, or any n bits
Validities(n) == {None} \cup {[tag |-> "Some", bits |-> b] : b \in [1..n -> BOOLEAN]}

(***************************************************************************)
(* encode_plain                                                            *)
(***************************************************************************)

\* the most entries of a column given to encode_plain
MaxRows == 3

\* the entries of the columns encoded: "", "a", "bb" and "\u{e9}"
PlainStrings == {<<>>, <<97>>, <<98, 98>>, StrOf(<<233>>)}

\* (n as u32).to_le_bytes(); a length of the model is below 2^31 and the cast
\* keeps it
U32LeBytes(n) ==
    <<n % 256, (n \div 256) % 256, (n \div 65536) % 256, (n \div 16777216) % 256>>

\* the closure of encode_plain over the items xs: the length, then the bytes
RECURSIVE PlainRecords(_, _)
PlainRecords(buf, xs) ==
    IF xs = <<>> THEN buf
    ELSE PlainRecords(buf \o U32LeBytes(Len(Head(xs))) \o Head(xs), Tail(xs))

\* encode_plain that takes the values_iter branch whatever is_optional is
encode_plain_every_entry(arr, optional, buf) == PlainRecords(buf, values_iter(arr))

encode_plain(arr, optional, buf) ==
    IF optional THEN PlainRecords(buf, Flatten(iter(arr)))
    ELSE PlainRecords(buf, values_iter(arr))

InitEncode ==
    /\ \E strs \in SeqsUpTo(PlainStrings, MaxRows) :
        \E valid \in Validities(Len(strs)) : array = Utf8ArrayOf(strs, valid)
    /\ is_optional \in BOOLEAN
    /\ buffer0 \in {<<>>, <<1, 0>>}
    /\ buffer = buffer0
    /\ encoded = FALSE
    /\ statistics = None

\* a call of encode_plain
EncodePlain ==
    /\ ~encoded
    /\ buffer' = encode_plain(array, is_optional, buffer)
    /\ encoded' = TRUE
    /\ UNCHANGED <<array, is_optional, buffer0, statistics>>

InitPlain ==
    IdleGrow /\ IdleTrunc /\ InitEncode /\ IdleMeta /\ IdleFlight /\ IdleSlice

NextPlain ==
    EncodePlain /\ UNCHANGED <<growVars, truncVars, metaVars, flightVars, sliceVars>>

SpecPlain == InitPlain /\ [][NextPlain]_vars

\* a reader of PLAIN BYTE_ARRAY values: the strings of the records in buf from
\* the 0-based position at, or <<"malformed">> when the bytes are no records
RECURSIVE ReadPlain(_, _)
ReadPlain(buf, at) ==
    IF at = Len(buf) THEN <<>>
    ELSE IF at + 4 > Len(buf) THEN <<"malformed">>
    ELSE LET n == buf[at + 1] + 256 * buf[at + 2] + 65536 * buf[at + 3]
                  + 16777216 * buf[at + 4]
         IN  IF at + 4 + n > Len(buf) THEN <<"malformed">>
             ELSE <<SubSeq(buf, at + 5, at + 4 + n)>> \o ReadPlain(buf, at + 4 + n)

\* the 0-based indices of the entries the claim says are encoded
EncodedEntries(arr, optional) ==
    {i \in 0..(ArrayLen(arr) - 1) : ~optional \/ ~IsNull(arr, i)}

\* C5: encode_plain keeps the bytes the buffer held and appends, in entry order,
\* one record (4-byte little-endian length, then the bytes) for every entry
\* when is_optional is false and for every non-null entry when it is true.
EncodePlainRecords ==
    encoded =>
        LET read == ReadPlain(buffer, Len(buffer0))
            kept == EncodedEntries(array, is_optional)
        IN  /\ SubSeq(buffer, 1, Len(buffer0)) = buffer0
            /\ Len(read) = Cardinality(kept)
            /\ \A k \in 1..Len(read) :
                \E i \in kept :
                    /\ Cardinality({j \in kept : j < i}) = k - 1
                    /\ read[k] = ArrayValue(array, i)
            /\ Len(buffer) = Len(buffer0) + 4 * Cardinality(kept)
                   + Len(Concat([k \in 1..Len(read) |-> read[k]]))

\* an optional column with a null entry of non-empty value between two valid
\* ones, encoded after bytes already in the buffer
EncodePlainWitness ==
    /\ encoded
    /\ is_optional
    /\ Len(buffer0) > 0
    /\ ArrayLen(array) = 3
    /\ ~IsNull(array, 0) /\ IsNull(array, 1) /\ ~IsNull(array, 2)
    /\ Len(ArrayValue(array, 1)) > 0
    /\ Len(ArrayValue(array, 2)) = 2


(***************************************************************************)
(* build_statistics                                                        *)
(***************************************************************************)

\* the most entries of a column given to build_statistics
MaxStatRows == 3

\* the entries of the columns summarized: "", "b", "ab", 256 'x' then "a", and
\* 255 'x' then U+07FF (across byte 256) then "z"
StatStrings ==
    {<<>>, <<98>>, <<97, 98>>,
     [i \in 1..MAX_STAT_LENGTH |-> 120] \o <<97>>,
     [i \in 1..(MAX_STAT_LENGTH - 1) |-> 120] \o StrOf(<<2047, 122>>)}

\* ord_binary: the byte-wise order of two values
ord_binary(a, b) == BytesCmp(a, b)

\* Iterator::max_by(ord_binary) from the item best on: the last greatest item
RECURSIVE MaxBy(_, _)
MaxBy(best, xs) ==
    IF xs = <<>> THEN best
    ELSE MaxBy(IF ord_binary(best, Head(xs)) = 1 THEN best ELSE Head(xs), Tail(xs))

\* Iterator::min_by(ord_binary) from the item best on: the first least item
RECURSIVE MinBy(_, _)
MinBy(best, xs) ==
    IF xs = <<>> THEN best
    ELSE MinBy(IF ord_binary(best, Head(xs)) = 1 THEN Head(xs) ELSE best, Tail(xs))

\* the BinaryStatistics of a column whose iterators yield the strings xs
StatisticsOver(arr, xs) ==
    LET ups == [k \in 1..Len(xs) |-> truncate_up(xs[k])]
        downs == [k \in 1..Len(xs) |-> truncate_down(xs[k])]
    IN  IF \E k \in 1..Len(xs) : ups[k] = Panic \/ downs[k] = Panic THEN Panic
        ELSE [tag |-> "BinaryStatistics",
              null_count |-> Some(null_count(arr)),
              distinct_count |-> None,
              max_value |-> IF xs = <<>> THEN None
                            ELSE Some(MaxBy(ups[1].val,
                                            [k \in 1..(Len(xs) - 1) |-> ups[k + 1].val])),
              min_value |-> IF xs = <<>> THEN None
                            ELSE Some(MinBy(downs[1].val,
                                            [k \in 1..(Len(xs) - 1) |-> downs[k + 1].val]))]

\* build_statistics that reads the values of the null entries too
build_statistics_every_entry(arr) == StatisticsOver(arr, values_iter(arr))

build_statistics(arr) == StatisticsOver(arr, Flatten(iter(arr)))

InitStats ==
    /\ \E strs \in SeqsUpTo(StatStrings, MaxStatRows) :
        \E valid \in Validities(Len(strs)) : array = Utf8ArrayOf(strs, valid)
    /\ is_optional = FALSE
    /\ buffer0 = <<>>
    /\ buffer = <<>>
    /\ encoded = FALSE
    /\ statistics = None

BuildStatistics ==
    /\ statistics = None
    /\ statistics' = build_statistics(array)
    /\ UNCHANGED <<array, is_optional, buffer, buffer0, encoded>>

InitStatistics ==
    IdleGrow /\ IdleTrunc /\ InitStats /\ IdleMeta /\ IdleFlight /\ IdleSlice

NextStatistics ==
    BuildStatistics /\ UNCHANGED <<growVars, truncVars, metaVars, flightVars, sliceVars>>

SpecStatistics == InitStatistics /\ [][NextStatistics]_vars

\* the values of the non-null entries of the column
NonNullValues(arr) ==
    {ArrayValue(arr, i) : i \in {j \in 0..(ArrayLen(arr) - 1) : ~IsNull(arr, j)}}

\* C6: the statistics hold the number of null entries, no distinct count, and
\* a min and a max that are absent iff no entry is non-null and are else the
\* byte-wise least truncate_down and greatest truncate_up of the non-null entries.
StatisticsOfNonNull ==
    statistics # None =>
        LET xs == NonNullValues(array)
            nulls == {i \in 1..ArrayLen(array) :
                         array.validity # None /\ ~array.validity.bits[i]}
        IN  /\ statistics.tag = "BinaryStatistics"
            /\ statistics.null_count = Some(Cardinality(nulls))
            /\ statistics.distinct_count = None
            /\ statistics.min_value = None <=> xs = {}
            /\ statistics.max_value = None <=> xs = {}
            /\ xs # {} =>
                /\ \E x \in xs : statistics.min_value.val = truncate_down(x).val
                /\ \A x \in xs :
                       BytesCmp(statistics.min_value.val, truncate_down(x).val) <= 0
                /\ \E x \in xs : statistics.max_value.val = truncate_up(x).val
                /\ \A x \in xs :
                       BytesCmp(statistics.max_value.val, truncate_up(x).val) >= 0

\* a column whose null entry holds a value below the min and whose max comes
\* from a string longer than the cap
StatisticsWitness ==
    /\ statistics # None
    /\ ArrayLen(array) = 3
    /\ IsNull(array, 0) /\ ~IsNull(array, 1) /\ ~IsNull(array, 2)
    /\ ArrayValue(array, 0) = <<97, 98>>
    /\ ArrayValue(array, 1) = <<98>>
    /\ Len(ArrayValue(array, 2)) > MAX_STAT_LENGTH
    /\ statistics.min_value = Some(<<98>>)
    /\ Len(statistics.max_value.val) = MAX_STAT_LENGTH


(***************************************************************************)
(* read_schema_from_metadata                                               *)
(***************************************************************************)

\* the most 4-char groups of the string stored under the schema key
MaxGroups == 4

Err(kind) == [tag |-> "Err", kind |-> kind]

\* the base64 alphabet: the char of value v is Base64Chars[v + 1]
Base64Chars ==
    <<"A", "B", "C", "D", "E", "F", "G", "H", "I", "J", "K", "L", "M", "N", "O", "P",
      "Q", "R", "S", "T", "U", "V", "W", "X", "Y", "Z", "a", "b", "c", "d", "e", "f",
      "g", "h", "i", "j", "k", "l", "m", "n", "o", "p", "q", "r", "s", "t", "u", "v",
      "w", "x", "y", "z", "0", "1", "2", "3", "4", "5", "6", "7", "8", "9", "+", "/">>

IsBase64Char(c) == \E v \in 1..64 : Base64Chars[v] = c

Sextet(c) == (CHOOSE v \in 1..64 : Base64Chars[v] = c) - 1

\* the bytes of the 4-char group of text that starts at the 0-based index at,
\* of which the last pad chars are '='
GroupBytes(text, at, pad) ==
    LET v(k) == IF k > 4 - pad THEN 0 ELSE Sextet(text[at + k])
        bits == ((v(1) * 64 + v(2)) * 64 + v(3)) * 64 + v(4)
    IN  SubSeq(<<bits \div 65536, (bits \div 256) % 256, bits % 256>>, 1, 3 - pad)

\* the bits of the last symbol of a padded group that no byte takes
TrailingBits(text, pad) ==
    IF pad = 0 THEN 0
    ELSE IF pad = 1 THEN Sextet(text[Len(text) - 1]) % 4
    ELSE Sextet(text[Len(text) - 2]) % 16

\* base64::decode of a string of whole 4-char groups: an error on a char
\* outside the alphabet, on padding anywhere but at the end of the last group,
\* and on a last symbol with bits set that no byte takes
Base64Decode(text) ==
    LET n == Len(text)
        pad == IF n > 0 /\ text[n] = "=" THEN (IF text[n - 1] = "=" THEN 2 ELSE 1)
               ELSE 0
    IN  IF n % 4 # 0 THEN Err("InvalidLength")
        ELSE IF \E i \in 1..(n - pad) : ~IsBase64Char(text[i]) THEN Err("InvalidByte")
        ELSE IF TrailingBits(text, pad) # 0 THEN Err("InvalidLastSymbol")
        ELSE Ok(Concat([g \in 1..(n \div 4) |->
                           GroupBytes(text, 4 * (g - 1), IF g = n \div 4 THEN pad ELSE 0)]))

\* the groups the stored strings are made of: they decode to ff ff ff, ff,
\* ff ff, 00 00 00, 00 and 10 00 00; "!AAA" is no base64
MetaGroups ==
    {<<"/", "/", "/", "/">>, <<"/", "w", "=", "=">>, <<"/", "/", "8", "=">>,
     <<"A", "A", "A", "A">>, <<"A", "A", "=", "=">>, <<"E", "A", "A", "A">>,
     <<"!", "A", "A", "A">>}

\* the metadata: no schema key, or a string stored under it
MetaInputs ==
    {None} \cup {Some(Concat(groups)) : groups \in SeqsUpTo(MetaGroups, MaxGroups)}

\* what deserialize_schema may answer for the bytes given: an empty message is
\* no schema; of any other, the model does not say
DeserializeSchema(slice) ==
    IF slice = <<>> THEN {Err("OutOfSpec")}
    ELSE {Ok([tag |-> "Schema", bytes |-> slice]), Err("OutOfSpec")}

\* get_arrow_schema_from_metadata: the set of results it may return
get_arrow_schema_from_metadata(encoded_meta) ==
    LET decoded == Base64Decode(encoded_meta) IN
    IF decoded.tag = "Ok"
    THEN LET bytes == decoded.val IN
         IF Len(bytes) < 4 THEN {Panic}  \* bytes[0..4] out of range
         ELSE IF SubSeq(bytes, 1, 4) = <<255, 255, 255, 255>>
              THEN (IF Len(bytes) < 8 THEN {Panic}  \* bytes[8..] out of range
                    ELSE DeserializeSchema(SubSeq(bytes, 9, Len(bytes))))
              ELSE DeserializeSchema(bytes)
    ELSE {Err("InvalidArgumentError")}

\* Option<Result<T>>::transpose
Transpose(r) == IF r.tag = "Ok" THEN Ok(Some(r.val)) ELSE r

InitMeta == metadata \in MetaInputs /\ schema = None

\* read_schema_from_metadata: the key is removed and its value, if any, parsed
ReadSchemaFromMetadata ==
    /\ schema = None
    /\ metadata' = None
    /\ IF metadata = None THEN schema' = [arg |-> metadata, ret |-> Ok(None)]
       ELSE \E r \in get_arrow_schema_from_metadata(metadata.val) :
                schema' = [arg |-> metadata, ret |-> Transpose(r)]

InitMetadata ==
    IdleGrow /\ IdleTrunc /\ IdlePage /\ InitMeta /\ IdleFlight /\ IdleSlice

NextMetadata ==
    ReadSchemaFromMetadata
        /\ UNCHANGED <<growVars, truncVars, pageVars, flightVars, sliceVars>>

SpecMetadata == InitMetadata /\ [][NextMetadata]_vars

\* C7: read_schema_from_metadata returns Ok(None) iff the key is absent, and of
\* a stored string Ok(Some(schema)) or an error, never an abort; a string that
\* is no base64 gives an InvalidArgumentError.
ReadSchemaNeverAborts ==
    schema # None =>
        /\ schema.ret = Ok(None) <=> schema.arg = None
        /\ schema.ret.tag \in {"Ok", "Err"}
        /\ (schema.arg # None /\ Base64Decode(schema.arg.val).tag = "Err")
               => schema.ret = Err("InvalidArgumentError")


(***************************************************************************)
(* flight: deserialize_batch, deserialize_dictionary, deserialize_message  *)
(***************************************************************************)

\* the largest dictionary id of a message
MaxDictId == 1

\* the variants of ipc::MessageHeaderRef
HeaderTypes == {"Schema", "DictionaryBatch", "RecordBatch", "Tensor", "SparseTensor"}

\* FlightData as the deserializers read it: whether data_header is a message
\* at all (read_as_root), its header (a variant, "missing" for None, "invalid"
\* when header() fails), the dictionary id of a dictionary batch, and whether
\* data_body is what the header describes
FlightInputs ==
    [root : {"ok", "malformed"},
     header : HeaderTypes \cup {"missing", "invalid"},
     id : 0..MaxDictId,
     body : {"good", "bad"}]

\* read::read_record_batch
read_record_batch(msg) ==
    IF msg.body = "good" THEN Ok([tag |-> "Chunk"]) ELSE Err("OutOfSpec")

\* read::read_dictionary: the result and the dictionaries after it
read_dictionary(msg, dicts) ==
    IF msg.body = "good" THEN [ret |-> Ok("unit"), dicts |-> dicts \cup {msg.id}]
    ELSE [ret |-> Err("OutOfSpec"), dicts |-> dicts]

\* deserialize_dictionary that answers a header of another type with an error
deserialize_dictionary_nyi(msg, dicts) ==
    IF msg.root = "malformed" THEN [ret |-> Err("OutOfSpec"), dicts |-> dicts]
    ELSE IF msg.header = "invalid" THEN [ret |-> Err("OutOfSpec"), dicts |-> dicts]
    ELSE IF msg.header = "missing" THEN [ret |-> Err("OutOfSpec"), dicts |-> dicts]
    ELSE IF msg.header = "DictionaryBatch" THEN read_dictionary(msg, dicts)
    ELSE [ret |-> Err("NotYetImplemented"), dicts |-> dicts]

deserialize_batch(msg, dicts) ==
    IF msg.root = "malformed" THEN [ret |-> Err("OutOfSpec"), dicts |-> dicts]
    ELSE IF msg.header = "invalid" THEN [ret |-> Err("OutOfSpec"), dicts |-> dicts]
    ELSE IF msg.header = "missing" THEN [ret |-> Err("OutOfSpec"), dicts |-> dicts]
    ELSE IF msg.header = "RecordBatch"
         THEN [ret |-> read_record_batch(msg), dicts |-> dicts]
    ELSE [ret |-> Err("NotYetImplemented"), dicts |-> dicts]

deserialize_dictionary(msg, dicts) ==
    IF msg.root = "malformed" THEN [ret |-> Err("OutOfSpec"), dicts |-> dicts]
    ELSE IF msg.header = "invalid" THEN [ret |-> Err("OutOfSpec"), dicts |-> dicts]
    ELSE IF msg.header = "missing" THEN [ret |-> Err("OutOfSpec"), dicts |-> dicts]
    ELSE IF msg.header = "DictionaryBatch" THEN read_dictionary(msg, dicts)
    ELSE [ret |-> Ok("unit"), dicts |-> dicts]

deserialize_message(msg, dicts) ==
    IF msg.root = "malformed" THEN [ret |-> Err("OutOfSpec"), dicts |-> dicts]
    ELSE IF msg.header = "invalid" THEN [ret |-> Err("OutOfSpec"), dicts |-> dicts]
    ELSE IF msg.header = "missing" THEN [ret |-> Err("OutOfSpec"), dicts |-> dicts]
    ELSE IF msg.header = "RecordBatch"
         THEN LET chunk == read_record_batch(msg) IN
              [ret |-> IF chunk.tag = "Ok" THEN Ok(Some(chunk.val)) ELSE chunk,
               dicts |-> dicts]
    ELSE IF msg.header = "DictionaryBatch"
         THEN LET r == read_dictionary(msg, dicts) IN
              [ret |-> IF r.ret.tag = "Ok" THEN Ok(None) ELSE r.ret, dicts |-> r.dicts]
    ELSE [ret |-> Err("NotYetImplemented"), dicts |-> dicts]

InitFlightData ==
    /\ data \in FlightInputs
    /\ dictionaries \in SUBSET (0..MaxDictId)
    /\ dictionaries0 = dictionaries
    /\ flight = None

DeserializeBatch ==
    /\ flight = None
    /\ LET r == deserialize_batch(data, dictionaries) IN
       /\ flight' = [fn |-> "deserialize_batch", ret |-> r.ret]
       /\ dictionaries' = r.dicts
    /\ UNCHANGED <<data, dictionaries0>>

DeserializeDictionary ==
    /\ flight = None
    /\ LET r == deserialize_dictionary(data, dictionaries) IN
       /\ flight' = [fn |-> "deserialize_dictionary", ret |-> r.ret]
       /\ dictionaries' = r.dicts
    /\ UNCHANGED <<data, dictionaries0>>

DeserializeMessage ==
    /\ flight = None
    /\ LET r == deserialize_message(data, dictionaries) IN
       /\ flight' = [fn |-> "deserialize_message", ret |-> r.ret]
       /\ dictionaries' = r.dicts
    /\ UNCHANGED <<data, dictionaries0>>

InitFlight ==
    IdleGrow /\ IdleTrunc /\ IdlePage /\ IdleMeta /\ InitFlightData /\ IdleSlice

NextFlight ==
    \/ DeserializeBatch /\ UNCHANGED <<growVars, truncVars, pageVars, metaVars, sliceVars>>
    \/ DeserializeDictionary
           /\ UNCHANGED <<growVars, truncVars, pageVars, metaVars, sliceVars>>
    \/ DeserializeMessage
           /\ UNCHANGED <<growVars, truncVars, pageVars, metaVars, sliceVars>>

SpecFlight == InitFlight /\ [][NextFlight]_vars

\* the header types an entry point reads
Handled(fn) ==
    IF fn = "deserialize_batch" THEN {"RecordBatch"}
    ELSE IF fn = "deserialize_dictionary" THEN {"DictionaryBatch"}
    ELSE {"RecordBatch", "DictionaryBatch"}

\* C8 as stated: every entry point answers a well-formed message of a header
\* type it does not handle with a "not yet implemented" error, and only
\* deserialize_dictionary of a message without header returns Ok and leaves
\* the dictionaries as they were.
UnhandledHeaderIsNyi ==
    (flight # None /\ data.root = "ok") =>
        /\ data.header \in HeaderTypes \ Handled(flight.fn)
               => flight.ret = Err("NotYetImplemented")
        /\ (flight.fn = "deserialize_dictionary" /\ data.header = "missing")
               => (flight.ret = Ok("unit") /\ dictionaries = dictionaries0)

\* C8 amended: deserialize_batch and deserialize_message answer a well-formed
\* message of a header type they do not handle with a "not yet implemented"
\* error; deserialize_dictionary answers one with Ok and leaves the
\* dictionaries as they were; a message without header is an out-of-spec error
\* of all three.
UnhandledHeaderIsNyiOrIgnored ==
    (flight # None /\ data.root = "ok") =>
        /\ (data.header \in HeaderTypes \ Handled(flight.fn)
                /\ flight.fn # "deserialize_dictionary")
               => (flight.ret = Err("NotYetImplemented") /\ dictionaries = dictionaries0)
        /\ (data.header \in HeaderTypes \ Handled(flight.fn)
                /\ flight.fn = "deserialize_dictionary")
               => (flight.ret = Ok("unit") /\ dictionaries = dictionaries0)
        /\ data.header = "missing"
               => (flight.ret = Err("OutOfSpec") /\ dictionaries = dictionaries0)

\* deserialize_dictionary was given a record batch message
UnhandledHeaderWitness ==
    /\ flight # None
    /\ flight.fn = "deserialize_dictionary"
    /\ data.root = "ok"
    /\ data.header = "RecordBatch"
    /\ flight.ret.tag = "Ok"

(***************************************************************************)
(* ConstUtf8Array::slice                                                   *)
(***************************************************************************)

\* the bits of a usize of the model
WordBits == 3

RECURSIVE Pow2(_)
Pow2(n) == IF n = 0 THEN 1 ELSE 2 * Pow2(n - 1)

\* usize::MAX
USIZE_MAX == Pow2(WordBits) - 1

\* usize::saturating_add
saturating_add(a, b) == Min(a + b, USIZE_MAX)

\* ConstUtf8Array::slice_unchecked
slice_unchecked(this, offset, len) == Ok(new(this.value, len))

\* ConstUtf8Array::slice
slice(this, offset, len) ==
    IF ~(saturating_add(offset, len) <= this.len) THEN Panic  \* assert!
    ELSE slice_unchecked(this, offset, len)

InitConst ==
    /\ \E value \in {<<>>, <<97>>} : \E len \in 0..USIZE_MAX : self = new(value, len)
    /\ sliced = None

Slice ==
    /\ sliced = None
    /\ \E offset \in 0..USIZE_MAX, len \in 0..USIZE_MAX :
        sliced' = [offset |-> offset, length |-> len, ret |-> slice(self, offset, len)]
    /\ UNCHANGED self

InitSlice ==
    IdleGrow /\ IdleTrunc /\ IdlePage /\ IdleMeta /\ IdleFlight /\ InitConst

NextSlice ==
    Slice /\ UNCHANGED <<growVars, truncVars, pageVars, metaVars, flightVars>>

SpecSlice == InitSlice /\ [][NextSlice]_vars

\* C9: slice aborts whenever offset + length, as a number and not as a usize,
\* exceeds len, and otherwise returns a column of the same value and of
\* length entries.
SliceChecksTrueSum ==
    sliced # None =>
        IF sliced.offset + sliced.length > self.len THEN sliced.ret = Panic
        ELSE sliced.ret = Ok(new(self.value, sliced.length))

=============================================================================
